---- MODULE Spec2Model ----
(***************************************************************************)
(* PgOSM Flex (docker/pgosm_flex.py): the acquisition of a dated PBF/MD5   *)
(* pair, the readiness poll and the stage sequence of run_pgosm_flex.      *)
(*                                                                         *)
(* Strings that the code formats or rewrites are sequences of atoms, the   *)
(* path separator "/" always being an atom of its own.  An optional value  *)
(* (None or a string) is a record [some, val].  A file is its content:     *)
(* Absent when it does not exist, a version number for a payload, the      *)
(* digest of a version for a checksum file, Truncated for what a failed    *)
(* wget -O leaves behind.                                                  *)
(***************************************************************************)
EXTENDS Integers, Sequences, FiniteSets, TLC

\* ------------------------------------------------------------------ bounds
\* Number of distinct payload versions the mirror may serve.
NumVersions == 2
\* Longest region / subregion string (in atoms) given to the Artifact Namer.
MaxNameLen == 2

\* ------------------------------------------------------- program constants
required_checks == 2
max_loops == 30
hard_loops == 100

\* ------------------------------------------------------------ file content
Absent == 0
Truncated == -1
Versions == 1..NumVersions

\* md5sum of a payload content (an injective digest, never the content itself)
md5sum(content) ==
    content + 100

PbfContents == Versions \cup {Truncated}
Md5Contents == {md5sum(v) : v \in Versions} \cup {Truncated}

\* os.path.exists
exists(file) ==
    file # Absent

\* --------------------------------------------------------- optional strings
None == [some |-> FALSE, val |-> <<>>]
Some(s) == [some |-> TRUE, val |-> s]

\* str.replace('/', '-') on a sequence of atoms
replace_slash(s) ==
    [k \in 1..Len(s) |-> IF s[k] = "/" THEN "-" ELSE s[k]]

\* The values of the run used by the pipeline specification.
RegionUS == <<"north-america", "/", "us">>
SubregionDC == <<"district-of-columbia">>
SubregionNone == <<"none">>
LayersetDefault == <<"default">>
InputPbf == <<"/data/extract", ".osm", ".pbf">>
Dates == {"2021-01-13", "2021-01-14"}
ConnStrs == {None, Some(<<"postgresql://ext">>)}

\* ------------------------------------------------------------------- state
VARIABLES
    pgosm_date,          \* --pgosm-date of the runs of this output directory
    subregion_in,        \* --subregion as given on the command line
    pbf_file,            \* <out_path>/<name>-latest.osm.pbf
    md5_file,            \* <out_path>/<name>-latest.osm.pbf.md5
    pbf_file_with_date,  \* <out_path>/<name>-<pgosm_date>.osm.pbf
    md5_file_with_date,  \* <out_path>/<name>-<pgosm_date>.osm.pbf.md5
    today,               \* what get_today() returned to this run, once read
    region,              \* --region (None or a string)
    subregion,           \* subregion after the 'none' normalisation
    input_file,          \* --input-file (None or a path)
    conn_str,            \* --conn-str (None or a connection string)
    skip_nested_in,      \* --skip-nested as requested by the caller
    pc,                  \* position of run_pgosm_flex
    err,                 \* the exception that ended the run, or "none"
    log,                 \* the operations the run has called, in order
    i,                   \* wait_for_postgres: loop counter
    found,               \* wait_for_postgres: successful checks so far
    sleeps,              \* wait_for_postgres: calls of time.sleep
    checks,              \* wait_for_postgres: calls of db.pg_isready
    fails,               \* wait_for_postgres: calls of db.pg_isready that returned False
    fail_after_pass,     \* wait_for_postgres: a check failed after one passed
    osm2pgsql_command,   \* what the recommendation was asked for
    ini,                 \* the layerset definition read by check_layerset_places
    skip_nested,         \* skip_nested as passed to run_post_processing
    export_filename,     \* the name handed to pg_dump
    verified,            \* verify_checksum passed since the last write of a -latest file
    fresh,               \* the run started with none of the four files present
    acquired,            \* prepare_data of this run returned, with pgosm_date = today
    cached,              \* prepare_data of an earlier run returned, with pgosm_date = today
    copied,              \* what archive_data and unarchive_data of this run copied
    name_call            \* Artifact Namer: the arguments and result of one call

fs == <<pbf_file, md5_file, pbf_file_with_date, md5_file_with_date>>
inputs == <<today, region, subregion, input_file, conn_str, skip_nested_in>>
poll == <<i, found, sleeps, checks, fails, fail_after_pass>>
fixed == <<pgosm_date, subregion_in>>
outputs == <<osm2pgsql_command, ini, skip_nested, export_filename>>
history == <<verified, fresh, acquired, cached, copied>>
vars == <<fixed, fs, inputs, pc, err, log, poll, outputs, history, name_call>>

\* ---------------------------------------------------------- Artifact Namer
Ok(s) == [ok |-> TRUE, val |-> s, err |-> "none"]
Raise(e) == [ok |-> FALSE, val |-> <<>>, err |-> e]

\* f'{x}' of an optional string
format(x) ==
    IF x.some THEN x.val ELSE <<"None">>

\* Mutant: the name carries the region and the subregion.
get_region_filename_full(r, s) ==
    IF ~s.some
    THEN format(r) \o <<"-latest", ".osm.pbf">>
    ELSE format(r) \o <<"-">> \o format(s) \o <<"-latest", ".osm.pbf">>

get_region_filename(r, s) ==
    IF ~s.some
    THEN format(r) \o <<"-latest", ".osm.pbf">>
    ELSE format(s) \o <<"-latest", ".osm.pbf">>

\* pbf_file.replace('latest', pgosm_date), line 444: every 'latest' of the
\* name becomes the date
RECURSIVE replace_latest(_, _)
replace_latest(name, date) ==
    IF name = <<>> THEN <<>>
    ELSE (IF Head(name) = "-latest" THEN <<"-">> \o date ELSE <<Head(name)>>)
             \o replace_latest(Tail(name), date)

\* prepare_data, lines 441-444: the name of the dated payload in out_path
dated_filename(r, s, date) ==
    replace_latest(get_region_filename(r, s), date)

\* x.replace('/', '-'): an AttributeError when x is None
replace(x) ==
    IF x.some THEN Ok(replace_slash(x.val)) ELSE Raise("AttributeError")

get_export_filename(r, s, layerset, date) ==
    LET r2 == replace(r)
        s2 == replace(s)
    IN  IF ~r2.ok THEN r2
        ELSE IF ~s2.ok THEN s2
        ELSE IF ~Some(s2.val).some
             THEN Ok(<<"pgosm-flex", "-">> \o r2.val \o <<"-">> \o layerset
                     \o <<"-">> \o date \o <<".sql">>)
             ELSE Ok(<<"pgosm-flex", "-">> \o r2.val \o <<"-">> \o s2.val
                     \o <<"-">> \o layerset \o <<"-">> \o date \o <<".sql">>)

\* os.path.splitext(input_file)[0] + '.sql'
splitext_sql(path) ==
    IF Len(path) > 1 /\ path[Len(path)] \in {".pbf", ".osm", ".sql"}
    THEN SubSeq(path, 1, Len(path) - 1) \o <<".sql">>
    ELSE path \o <<".sql">>

\* ----------------------------------------------- Data Acquisition Manager
\* Mutant: a run dated today downloads even when the dated pair exists.
pbf_download_needed_today(pbf_dated, md5_dated, date, now) ==
    IF date = now THEN "download"
    ELSE IF exists(pbf_dated) /\ exists(md5_dated) THEN "cached"
    ELSE "FileNotFoundError"

\* Mutant: a missing dated checksum triggers a download whatever the date.
pbf_download_needed_refetch(pbf_dated, md5_dated, date, now) ==
    IF exists(pbf_dated)
    THEN IF exists(md5_dated) THEN "cached" ELSE "download"
    ELSE IF ~(date = now) THEN "FileNotFoundError"
         ELSE "download"

\* pbf_download_needed: "download", "cached", or the exception it raises
pbf_download_needed(pbf_dated, md5_dated, date, now) ==
    IF exists(pbf_dated)
    THEN IF exists(md5_dated) THEN "cached"
         ELSE IF date = now THEN "download"
         ELSE "FileNotFoundError"
    ELSE IF ~(date = now) THEN "FileNotFoundError"
         ELSE "download"

\* Mutant: the copy into the dated name is never made.
archive_copy_skip(latest, dated) ==
    dated

\* Mutant: the copy into the dated name is made whether or not the dated
\* file exists.
archive_copy_overwrite(latest, dated) ==
    latest

\* archive_data: the dated file after the call, given the -latest file
archive_copy(latest, dated) ==
    IF exists(dated) THEN dated ELSE latest

\* Mutant: a -latest file that is in the way is kept.
unarchive_copy_keep(latest, dated) ==
    IF exists(latest) THEN latest ELSE dated

\* unarchive_data: the -latest file after the call, given the dated file
unarchive_copy(latest, dated) ==
    dated

\* md5sum -c md5_file, run in out_path: TRUE when it exits with 0
md5sum_check(pbf, md5) ==
    exists(pbf) /\ exists(md5) /\ md5 = md5sum(pbf)

\* ------------------------------------------------------ Readiness Poller
\* Mutant: the soft bound is never applied, only the hard one is left.
soft_bound_exceeded_never(n) ==
    FALSE

\* Mutant: the soft bound trips one iteration early (>= for >).
soft_bound_exceeded_early(n) ==
    n >= max_loops

\* line 399: the soft bound
soft_bound_exceeded(n) ==
    n > max_loops

\* Mutant: the second guard trips no later than the first one.
hard_bound_exceeded_first(n) ==
    n >= max_loops

\* line 413: the hard bound
hard_bound_exceeded(n) ==
    n > hard_loops

\* ------------------------------------------------- nested-polygon decision
\* The layerset definition as configparser sees it after config.read: the
\* file is read or silently skipped, it holds a [layerset] section or not,
\* and the section holds a place key (its value a raw string) or not.
IniFiles ==
    {[readable |-> FALSE, section |-> FALSE, place |-> None],
     [readable |-> TRUE, section |-> FALSE, place |-> None],
     [readable |-> TRUE, section |-> TRUE, place |-> None],
     [readable |-> TRUE, section |-> TRUE, place |-> Some(<<"t","r","u","e">>)],
     [readable |-> TRUE, section |-> TRUE, place |-> Some(<<"f","a","l","s","e">>)],
     [readable |-> TRUE, section |-> TRUE, place |-> Some(<<>>)]}
NoIni == [readable |-> FALSE, section |-> FALSE, place |-> None]

\* config['layerset']['place']: the raw string, or a KeyError
config_place(f) ==
    IF f.readable /\ f.section /\ f.place.some
    THEN Ok(f.place.val)
    ELSE Raise("KeyError")

\* Python truth value of a str
truthy(str) ==
    Len(str) > 0

check_layerset_places(f) ==
    LET place == config_place(f)
    IN  IF ~place.ok THEN TRUE
        ELSE IF truthy(place.val) THEN FALSE
        ELSE TRUE

\* ------------------------------------------- import-recommendation request
NoCommand == [asked |-> FALSE, pbf |-> <<>>, conn |-> None]

\* rec.osm2pgsql_recommendation(ram, pbf_filename, out_path, conn_str): the
\* collaborator is opaque, the command is what it was asked for.
osm2pgsql_recommendation(pbf_filename, c) ==
    [asked |-> TRUE, pbf |-> pbf_filename, conn |-> c]

\* get_osm2pgsql_command(region, subregion, ram, paths, conn_str=None)
get_osm2pgsql_command(r, s, c) ==
    osm2pgsql_recommendation(get_region_filename(r, s), c)

\* ------------------------------------------------------------ initial state
NoName == [ok |-> FALSE, val |-> <<>>, err |-> "unset"]
NoCall == [fn |-> "none", region |-> None, subregion |-> None,
           layerset |-> <<>>, date |-> <<>>, result |-> NoName]

\* What the copies of one run did: archive_data wrote the dated payload,
\* wrote the dated checksum; unarchive_data replaced a -latest file that
\* existed with another content.
NoCopy == [pbf_dated |-> FALSE, md5_dated |-> FALSE, over_stale |-> FALSE]

\* No run has started: the state of the orchestrator before run_pgosm_flex
InitRun ==
    /\ today = "unread"
    /\ region = None
    /\ subregion = subregion_in
    /\ input_file = None
    /\ conn_str = None
    /\ skip_nested_in = FALSE
    /\ pc = "idle"
    /\ err = "none"
    /\ log = <<>>
    /\ i = 0 /\ found = 0 /\ sleeps = 0 /\ checks = 0 /\ fails = 0
    /\ fail_after_pass = FALSE
    /\ osm2pgsql_command = NoCommand
    /\ ini = NoIni
    /\ skip_nested = FALSE
    /\ export_filename = NoName
    /\ verified = FALSE
    /\ fresh = FALSE
    /\ acquired = FALSE
    /\ cached = FALSE
    /\ copied = NoCopy

\* The output directory holds any files earlier runs or the operator left.
Init ==
    /\ pgosm_date = "2021-01-13"
    /\ subregion_in \in {Some(SubregionNone), Some(SubregionDC)}
    /\ pbf_file \in {Absent} \cup Versions
    /\ md5_file \in {Absent} \cup {md5sum(v) : v \in Versions}
    /\ pbf_file_with_date \in {Absent} \cup Versions
    /\ md5_file_with_date \in {Absent} \cup {md5sum(v) : v \in Versions}
    /\ InitRun
    /\ name_call = NoCall

\* --------------------------------------------------------- run_pgosm_flex
Called(op) ==
    log' = Append(log, op)

Abort(e) ==
    /\ pc' = "aborted"
    /\ err' = e

\* Mutant: the arguments are checked after the paths, the log file and the
\* environment were set up.
StartRun_late_check ==
    /\ pc \in {"idle", "done", "aborted"}
    /\ \E r \in {None, Some(RegionUS)}, f \in {None, Some(InputPbf)},
          c \in ConnStrs, sn \in BOOLEAN :
        /\ region' = r
        /\ input_file' = f
        /\ conn_str' = c
        /\ skip_nested_in' = sn
        /\ IF ~r.some /\ ~f.some
           THEN /\ Abort("ValueError")
                /\ log' = <<"get_paths", "setup_logger", "set_env_vars">>
                /\ subregion' = subregion_in
           ELSE /\ err' = "none"
                /\ log' = <<"get_paths", "setup_logger", "set_env_vars">>
                /\ subregion' = IF ~f.some /\ subregion_in = Some(SubregionNone)
                                THEN None ELSE subregion_in
                /\ pc' = IF ~f.some THEN "prepare_data" ELSE "recommend"
    /\ i' = 0 /\ found' = 0 /\ sleeps' = 0 /\ checks' = 0 /\ fails' = 0
    /\ fail_after_pass' = FALSE
    /\ osm2pgsql_command' = NoCommand
    /\ ini' = NoIni
    /\ skip_nested' = FALSE
    /\ export_filename' = NoName
    /\ fresh' = (~exists(pbf_file) /\ ~exists(md5_file)
                 /\ ~exists(pbf_file_with_date) /\ ~exists(md5_file_with_date))
    /\ cached' = (cached \/ acquired)
    /\ acquired' = FALSE
    /\ today' = "unread"
    /\ copied' = NoCopy
    /\ UNCHANGED <<fixed, fs, verified, name_call>>

\* lines 105-125: the argument check, get_paths, the log file, set_env_vars
StartRun ==
    /\ pc \in {"idle", "done", "aborted"}
    /\ \E r \in {None, Some(RegionUS)}, f \in {None, Some(InputPbf)},
          c \in ConnStrs, sn \in BOOLEAN :
        /\ region' = r
        /\ input_file' = f
        /\ conn_str' = c
        /\ skip_nested_in' = sn
        /\ IF ~r.some /\ ~f.some
           THEN /\ Abort("ValueError")
                /\ log' = <<>>
                /\ subregion' = subregion_in
           ELSE /\ err' = "none"
                /\ log' = <<"get_paths", "setup_logger", "set_env_vars">>
                /\ subregion' = IF ~f.some /\ subregion_in = Some(SubregionNone)
                                THEN None ELSE subregion_in
                /\ pc' = IF ~f.some THEN "prepare_data" ELSE "recommend"
    /\ i' = 0 /\ found' = 0 /\ sleeps' = 0 /\ checks' = 0 /\ fails' = 0
    /\ fail_after_pass' = FALSE
    /\ osm2pgsql_command' = NoCommand
    /\ ini' = NoIni
    /\ skip_nested' = FALSE
    /\ export_filename' = NoName
    /\ fresh' = (~exists(pbf_file) /\ ~exists(md5_file)
                 /\ ~exists(pbf_file_with_date) /\ ~exists(md5_file_with_date))
    /\ cached' = (cached \/ acquired)
    /\ acquired' = FALSE
    /\ today' = "unread"
    /\ copied' = NoCopy
    /\ UNCHANGED <<fixed, fs, verified, name_call>>

\* prepare_data, lines 440-455: the names and the download decision
PrepareData ==
    /\ pc = "prepare_data"
    /\ \E now \in Dates :
        /\ today' = now
        /\ LET needed == pbf_download_needed(pbf_file_with_date,
                                             md5_file_with_date, pgosm_date, now)
           IN  IF needed = "download"
               THEN pc' = "download_pbf" /\ err' = err
               ELSE IF needed = "cached"
               THEN pc' = "unarchive" /\ err' = err
               ELSE Abort(needed)
    /\ Called("pbf_download_needed")
    /\ UNCHANGED <<fixed, fs, region, subregion, input_file, conn_str,
                   skip_nested_in, poll, outputs, history, name_call>>

\* download_data, lines 512-523: wget of the payload
DownloadPbf ==
    /\ pc = "download_pbf"
    /\ Called("wget_pbf")
    /\ verified' = FALSE
    /\ \/ \E v \in Versions :
            /\ pbf_file' = v
            /\ pc' = "download_md5"
            /\ err' = err
       \/ /\ pbf_file' = Truncated
          /\ Abort("CalledProcessError")
    /\ UNCHANGED <<fixed, md5_file, pbf_file_with_date, md5_file_with_date,
                   inputs, poll, outputs, fresh, acquired, cached, copied, name_call>>

\* download_data, lines 525-533: wget of the checksum
DownloadMd5 ==
    /\ pc = "download_md5"
    /\ Called("wget_md5")
    /\ verified' = FALSE
    /\ \/ \E v \in Versions :
            /\ md5_file' = md5sum(v)
            /\ pc' = "archive"
            /\ err' = err
       \/ /\ md5_file' = Truncated
          /\ Abort("CalledProcessError")
    /\ UNCHANGED <<fixed, pbf_file, pbf_file_with_date, md5_file_with_date,
                   inputs, poll, outputs, fresh, acquired, cached, copied, name_call>>

\* archive_data, lines 565-573
ArchiveData ==
    /\ pc = "archive"
    /\ Called("archive_data")
    /\ pbf_file_with_date' = archive_copy(pbf_file, pbf_file_with_date)
    /\ md5_file_with_date' = archive_copy(md5_file, md5_file_with_date)
    /\ copied' = [copied EXCEPT
          !.pbf_dated = (pbf_file_with_date' # pbf_file_with_date),
          !.md5_dated = (md5_file_with_date' # md5_file_with_date)]
    /\ pc' = "verify"
    /\ UNCHANGED <<fixed, pbf_file, md5_file, inputs, err, poll, outputs,
                   verified, fresh, acquired, cached, name_call>>

\* Mutant: the restored pair is used as it is, verify_checksum is run on
\* the download path alone.
UnarchiveData_unverified ==
    /\ pc = "unarchive"
    /\ Called("unarchive_data")
    /\ pbf_file' = pbf_file_with_date
    /\ md5_file' = md5_file_with_date
    /\ verified' = FALSE
    /\ acquired' = (pgosm_date = today)
    /\ copied' = [copied EXCEPT !.over_stale =
          \/ exists(pbf_file) /\ pbf_file # pbf_file_with_date
          \/ exists(md5_file) /\ md5_file # md5_file_with_date]
    /\ pc' = "recommend"
    /\ UNCHANGED <<fixed, pbf_file_with_date, md5_file_with_date, inputs, err,
                   poll, outputs, fresh, cached, name_call>>

\* unarchive_data, lines 589-600
UnarchiveData ==
    /\ pc = "unarchive"
    /\ Called("unarchive_data")
    /\ pbf_file' = unarchive_copy(pbf_file, pbf_file_with_date)
    /\ md5_file' = unarchive_copy(md5_file, md5_file_with_date)
    /\ verified' = FALSE
    /\ copied' = [copied EXCEPT !.over_stale =
          \/ exists(pbf_file) /\ pbf_file # pbf_file_with_date
          \/ exists(md5_file) /\ md5_file # md5_file_with_date]
    /\ pc' = "verify"
    /\ UNCHANGED <<fixed, pbf_file_with_date, md5_file_with_date, inputs, err,
                   poll, outputs, fresh, acquired, cached, name_call>>

\* Mutant: md5sum is run without check=True, its exit status is ignored.
VerifyChecksum_unchecked ==
    /\ pc = "verify"
    /\ Called("verify_checksum")
    /\ pc' = "recommend"
    /\ err' = err
    /\ verified' = md5sum_check(pbf_file, md5_file)
    /\ acquired' = (pgosm_date = today)
    /\ UNCHANGED <<fixed, fs, inputs, poll, outputs, fresh, cached, copied, name_call>>

\* Mutant: a pair that fails the verification is taken out of the dated
\* cache.
VerifyChecksum_discard ==
    /\ pc = "verify"
    /\ Called("verify_checksum")
    /\ IF md5sum_check(pbf_file, md5_file)
       THEN /\ pc' = "recommend"
            /\ err' = err
            /\ verified' = TRUE
            /\ acquired' = (pgosm_date = today)
            /\ UNCHANGED <<pbf_file_with_date, md5_file_with_date>>
       ELSE /\ Abort("CalledProcessError")
            /\ pbf_file_with_date' = Absent
            /\ md5_file_with_date' = Absent
            /\ UNCHANGED <<verified, acquired>>
    /\ UNCHANGED <<fixed, pbf_file, md5_file, inputs, poll, outputs, fresh,
                   cached, copied, name_call>>

\* verify_checksum, lines 544-548, and the return of prepare_data
VerifyChecksum ==
    /\ pc = "verify"
    /\ Called("verify_checksum")
    /\ IF md5sum_check(pbf_file, md5_file)
       THEN /\ pc' = "recommend"
            /\ err' = err
            /\ verified' = TRUE
            /\ acquired' = (pgosm_date = today)
       ELSE /\ Abort("CalledProcessError")
            /\ UNCHANGED <<verified, acquired>>
    /\ UNCHANGED <<fixed, fs, inputs, poll, outputs, fresh, cached, copied, name_call>>

\* Mutant: the readiness poll is left out, the schema is prepared at once.
Recommend_no_wait ==
    /\ pc = "recommend"
    /\ Called("osm2pgsql_recommendation")
    /\ osm2pgsql_command' =
          IF ~input_file.some
          THEN get_osm2pgsql_command(region, subregion, None)
          ELSE osm2pgsql_recommendation(input_file.val, conn_str)
    /\ pc' = "prepare_pgosm_db"
    /\ UNCHANGED <<fixed, fs, inputs, err, poll, ini, skip_nested,
                   export_filename, history, name_call>>

\* lines 131-139: the import command
Recommend ==
    /\ pc = "recommend"
    /\ Called("osm2pgsql_recommendation")
    /\ osm2pgsql_command' =
          IF ~input_file.some
          THEN get_osm2pgsql_command(region, subregion, None)
          ELSE osm2pgsql_recommendation(input_file.val, conn_str)
    /\ pc' = "wait_for_postgres"
    /\ UNCHANGED <<fixed, fs, inputs, err, poll, ini, skip_nested,
                   export_filename, history, name_call>>

\* wait_for_postgres, lines 390-396: the locals of the call
WaitForPostgres ==
    /\ pc = "wait_for_postgres"
    /\ Called("wait_for_postgres")
    /\ i' = 0 /\ found' = 0 /\ sleeps' = 0 /\ checks' = 0 /\ fails' = 0
    /\ fail_after_pass' = FALSE
    /\ pc' = "wait_loop"
    /\ UNCHANGED <<fixed, fs, inputs, err, outputs, history, name_call>>

SoftTimeout == "Postgres still has not started. Exiting."
HardTimeout == "Postgres still not available. Exiting."

\* Mutant: a failed check resets the count of passed checks, so that the
\* two passes must be consecutive.
WaitLoop_consecutive ==
    /\ pc = "wait_loop"
    /\ IF found < required_checks
       THEN IF soft_bound_exceeded(i)
            THEN /\ Abort(SoftTimeout)
                 /\ UNCHANGED poll
            ELSE \E ready \in BOOLEAN :
                    /\ sleeps' = sleeps + 1
                    /\ checks' = checks + 1
                    /\ found' = IF ready THEN found + 1 ELSE 0
                    /\ fails' = IF ready THEN fails ELSE fails + 1
                    /\ fail_after_pass' = (fail_after_pass \/ (~ready /\ found > 0))
                    /\ IF hard_bound_exceeded(i)
                       THEN Abort(HardTimeout) /\ i' = i
                       ELSE pc' = pc /\ err' = err /\ i' = i + 1
       ELSE /\ pc' = "prepare_pgosm_db"
            /\ err' = err
            /\ i' = 0 /\ found' = 0 /\ sleeps' = 0 /\ checks' = 0 /\ fails' = 0
            /\ fail_after_pass' = FALSE
    /\ UNCHANGED <<fixed, fs, inputs, log, outputs, history, name_call>>

\* wait_for_postgres, lines 398-419: one evaluation of the while condition
\* and, when it holds, one pass through the loop body; the locals and the
\* call counts of the call end with it.
WaitLoop ==
    /\ pc = "wait_loop"
    /\ IF found < required_checks
       THEN IF soft_bound_exceeded(i)
            THEN /\ Abort(SoftTimeout)
                 /\ UNCHANGED poll
            ELSE \E ready \in BOOLEAN :
                    /\ sleeps' = sleeps + 1
                    /\ checks' = checks + 1
                    /\ found' = IF ready THEN found + 1 ELSE found
                    /\ fails' = IF ready THEN fails ELSE fails + 1
                    /\ fail_after_pass' = (fail_after_pass \/ (~ready /\ found > 0))
                    /\ IF hard_bound_exceeded(i)
                       THEN Abort(HardTimeout) /\ i' = i
                       ELSE pc' = pc /\ err' = err /\ i' = i + 1
       ELSE /\ pc' = "prepare_pgosm_db"
            /\ err' = err
            /\ i' = 0 /\ found' = 0 /\ sleeps' = 0 /\ checks' = 0 /\ fails' = 0
            /\ fail_after_pass' = FALSE
    /\ UNCHANGED <<fixed, fs, inputs, log, outputs, history, name_call>>

\* line 143: db.prepare_pgosm_db, an external collaborator that may fail
PreparePgosmDb ==
    /\ pc = "prepare_pgosm_db"
    /\ Called("prepare_pgosm_db")
    /\ \/ pc' = "run_osm2pgsql" /\ err' = err
       \/ Abort("CalledProcessError")
    /\ UNCHANGED <<fixed, fs, inputs, poll, outputs, history, name_call>>

\* run_osm2pgsql, lines 656-663: subprocess.check_output of the command
RunOsm2pgsql ==
    /\ pc = "run_osm2pgsql"
    /\ Called("run_osm2pgsql")
    /\ \/ pc' = "decide_nested" /\ err' = err
       \/ Abort("CalledProcessError")
    /\ UNCHANGED <<fixed, fs, inputs, poll, outputs, history, name_call>>

\* lines 147-149: the nested-polygon decision
DecideNested ==
    /\ pc = "decide_nested"
    /\ IF ~skip_nested_in
       THEN \E f \in IniFiles :
               /\ ini' = f
               /\ skip_nested' = check_layerset_places(f)
               /\ Called("check_layerset_places")
       ELSE /\ skip_nested' = skip_nested_in
            /\ UNCHANGED <<ini, log>>
    /\ pc' = "run_post_processing"
    /\ UNCHANGED <<fixed, fs, inputs, err, poll, osm2pgsql_command,
                   export_filename, history, name_call>>

\* Mutant: the nested polygons are computed whatever skip_nested says.
RunPostProcessing_always_nested ==
    /\ pc = "run_post_processing"
    /\ \/ /\ Called("pgosm_after_import")
          /\ Abort("CalledProcessError")
       \/ /\ log' = log \o <<"pgosm_after_import", "pgosm_nested_admin_polygons">>
          /\ \/ pc' = "cleanup" /\ err' = err
             \/ Abort("CalledProcessError")
    /\ UNCHANGED <<fixed, fs, inputs, poll, outputs, history, name_call>>

\* run_post_processing, lines 717-723
RunPostProcessing ==
    /\ pc = "run_post_processing"
    /\ \/ /\ Called("pgosm_after_import")
          /\ Abort("CalledProcessError")
       \/ /\ skip_nested
          /\ Called("pgosm_after_import")
          /\ pc' = "cleanup" /\ err' = err
       \/ /\ ~skip_nested
          /\ log' = log \o <<"pgosm_after_import", "pgosm_nested_admin_polygons">>
          /\ \/ pc' = "cleanup" /\ err' = err
             \/ Abort("CalledProcessError")
    /\ UNCHANGED <<fixed, fs, inputs, poll, outputs, history, name_call>>

\* Mutant: remove_latest_files removes the payload and leaves the checksum.
Cleanup_keeps_checksum ==
    /\ pc = "cleanup"
    /\ IF ~input_file.some
       THEN IF ~exists(pbf_file)
            THEN /\ Called("remove_latest_files")
                 /\ Abort("FileNotFoundError")
                 /\ UNCHANGED <<pbf_file, verified, export_filename>>
            ELSE /\ log' = log \o <<"remove_latest_files", "get_export_filename">>
                 /\ pbf_file' = Absent
                 /\ verified' = FALSE
                 /\ LET name == get_export_filename(region, subregion,
                                     LayersetDefault, <<pgosm_date>>)
                    IN  IF name.ok
                        THEN /\ export_filename' = name
                             /\ pc' = "export" /\ err' = err
                        ELSE /\ export_filename' = export_filename
                             /\ Abort(name.err)
       ELSE /\ export_filename' = Ok(splitext_sql(input_file.val))
            /\ pc' = "export" /\ err' = err
            /\ UNCHANGED <<pbf_file, verified, log>>
    /\ UNCHANGED <<fixed, md5_file, pbf_file_with_date, md5_file_with_date,
                   inputs, poll, osm2pgsql_command, ini, skip_nested, fresh,
                   acquired, cached, copied, name_call>>

\* Mutant: remove_latest_files is called whether or not an input file was
\* given.
Cleanup_unconditional ==
    /\ pc = "cleanup"
    /\ IF ~exists(pbf_file)
       THEN /\ Called("remove_latest_files")
            /\ Abort("FileNotFoundError")
            /\ UNCHANGED <<pbf_file, md5_file, verified, export_filename>>
       ELSE IF ~exists(md5_file)
       THEN /\ Called("remove_latest_files")
            /\ pbf_file' = Absent
            /\ verified' = FALSE
            /\ Abort("FileNotFoundError")
            /\ UNCHANGED <<md5_file, export_filename>>
       ELSE /\ log' = log \o <<"remove_latest_files", "get_export_filename">>
            /\ pbf_file' = Absent
            /\ md5_file' = Absent
            /\ verified' = FALSE
            /\ LET name == IF ~input_file.some
                           THEN get_export_filename(region, subregion,
                                    LayersetDefault, <<pgosm_date>>)
                           ELSE Ok(splitext_sql(input_file.val))
               IN  IF name.ok
                   THEN /\ export_filename' = name
                        /\ pc' = "export" /\ err' = err
                   ELSE /\ export_filename' = export_filename
                        /\ Abort(name.err)
    /\ UNCHANGED <<fixed, pbf_file_with_date, md5_file_with_date, inputs, poll,
                   osm2pgsql_command, ini, skip_nested, fresh, acquired,
                   cached, copied, name_call>>

\* lines 154-162: remove_latest_files (lines 614-621) and the export name
Cleanup ==
    /\ pc = "cleanup"
    /\ IF ~input_file.some
       THEN IF ~exists(pbf_file)
            THEN /\ Called("remove_latest_files")
                 /\ Abort("FileNotFoundError")
                 /\ UNCHANGED <<pbf_file, md5_file, verified, export_filename>>
            ELSE IF ~exists(md5_file)
            THEN /\ Called("remove_latest_files")
                 /\ pbf_file' = Absent
                 /\ verified' = FALSE
                 /\ Abort("FileNotFoundError")
                 /\ UNCHANGED <<md5_file, export_filename>>
            ELSE /\ log' = log \o <<"remove_latest_files", "get_export_filename">>
                 /\ pbf_file' = Absent
                 /\ md5_file' = Absent
                 /\ verified' = FALSE
                 /\ LET name == get_export_filename(region, subregion,
                                     LayersetDefault, <<pgosm_date>>)
                    IN  IF name.ok
                        THEN /\ export_filename' = name
                             /\ pc' = "export" /\ err' = err
                        ELSE /\ export_filename' = export_filename
                             /\ Abort(name.err)
       ELSE /\ export_filename' = Ok(splitext_sql(input_file.val))
            /\ pc' = "export" /\ err' = err
            /\ UNCHANGED <<pbf_file, md5_file, verified, log>>
    /\ UNCHANGED <<fixed, pbf_file_with_date, md5_file_with_date, inputs, poll,
                   osm2pgsql_command, ini, skip_nested, fresh, acquired,
                   cached, copied, name_call>>

\* lines 164-176: the optional rename of the schema and the dump
Export ==
    /\ pc = "export"
    /\ \E rename \in BOOLEAN, skip_dump \in BOOLEAN :
          LET ops == (IF rename THEN <<"rename_schema">> ELSE <<>>)
                     \o (IF skip_dump THEN <<>> ELSE <<"run_pg_dump">>)
          IN  \/ /\ log' = log \o ops
                 /\ pc' = "done" /\ err' = err
              \/ /\ rename
                 /\ Called("rename_schema")
                 /\ Abort("CalledProcessError")
              \/ /\ ~skip_dump
                 /\ log' = log \o ops
                 /\ Abort("CalledProcessError")
    /\ UNCHANGED <<fixed, fs, inputs, poll, outputs, history, name_call>>

Next ==
    \/ StartRun
    \/ PrepareData
    \/ DownloadPbf
    \/ DownloadMd5
    \/ ArchiveData
    \/ UnarchiveData
    \/ VerifyChecksum
    \/ Recommend
    \/ WaitForPostgres
    \/ WaitLoop
    \/ PreparePgosmDb
    \/ RunOsm2pgsql
    \/ DecideNested
    \/ RunPostProcessing
    \/ Cleanup
    \/ Export

Spec == Init /\ [][Next]_vars

\* ------------------------------------------- Artifact Namer, on its own
\* The strings of at most MaxNameLen atoms over a small alphabet with "/".
Atoms == {"a", "b", "/"}
Names == UNION {[1..n -> Atoms] : n \in 1..MaxNameLen}

InitNames ==
    /\ pgosm_date = "2021-01-13"
    /\ subregion_in = Some(SubregionDC)
    /\ pbf_file = Absent /\ md5_file = Absent
    /\ pbf_file_with_date = Absent /\ md5_file_with_date = Absent
    /\ InitRun
    /\ \E r \in {Some(n) : n \in Names},
          s \in {None} \cup {Some(n) : n \in Names} :
          name_call = [NoCall EXCEPT !.region = r, !.subregion = s,
                                     !.layerset = LayersetDefault,
                                     !.date = <<"2021-01-13">>]

CallExportFilename ==
    /\ name_call.fn = "none"
    /\ name_call' = [name_call EXCEPT
          !.fn = "get_export_filename",
          !.result = get_export_filename(name_call.region, name_call.subregion,
                                         name_call.layerset, name_call.date)]
    /\ UNCHANGED <<fixed, fs, inputs, pc, err, log, poll, outputs, history>>

CallRegionFilename ==
    /\ name_call.fn = "none"
    /\ name_call' = [name_call EXCEPT
          !.fn = "get_region_filename",
          !.result = Ok(get_region_filename(name_call.region,
                                            name_call.subregion))]
    /\ UNCHANGED <<fixed, fs, inputs, pc, err, log, poll, outputs, history>>

\* prepare_data, lines 441-444: the cache entry a run looks for
CallDatedFilename ==
    /\ name_call.fn = "none"
    /\ name_call' = [name_call EXCEPT
          !.fn = "prepare_data",
          !.result = Ok(dated_filename(name_call.region, name_call.subregion,
                                       name_call.date))]
    /\ UNCHANGED <<fixed, fs, inputs, pc, err, log, poll, outputs, history>>

NextNames ==
    \/ CallExportFilename
    \/ CallRegionFilename
    \/ CallDatedFilename

SpecNames == InitNames /\ [][NextNames]_vars

\* ------------------------------------------------------------ the claims
InLog(op) ==
    \E k \in 1..Len(log) : log[k] = op

Count(op) ==
    Cardinality({k \in 1..Len(log) : log[k] = op})

Configured == <<"get_paths", "setup_logger", "set_env_vars">>

\* The run read a date from get_today() that is not its pgosm_date.
Historical ==
    today # "unread" /\ today # pgosm_date

DatedPairIncomplete ==
    ~exists(pbf_file_with_date) \/ ~exists(md5_file_with_date)

\* C1: with a pgosm_date that is not today and the dated payload or the
\* dated checksum absent, prepare_data ends the run with FileNotFoundError
\* in pbf_download_needed: the run has called nothing after it (no wget, no
\* archive or restore copy, no checksum verification), and the step that
\* raises leaves the four files as they were.
C1_MissingArtifactAborts ==
    /\ [](Historical /\ DatedPairIncomplete
            => /\ pc = "aborted"
               /\ err = "FileNotFoundError"
               /\ log = Append(Configured, "pbf_download_needed"))
    /\ [][pc = "prepare_data" /\ today' # pgosm_date /\ DatedPairIncomplete
            => pc' = "aborted" /\ fs' = fs]_vars

C1_Witness ==
    /\ Historical
    /\ exists(pbf_file_with_date) /\ ~exists(md5_file_with_date)
    /\ err = "FileNotFoundError"

Last(seq) ==
    seq[Len(seq)]

LaterStages ==
    {"osm2pgsql_recommendation", "wait_for_postgres", "prepare_pgosm_db",
     "run_osm2pgsql", "check_layerset_places", "pgosm_after_import",
     "pgosm_nested_admin_polygons", "remove_latest_files",
     "get_export_filename", "rename_schema", "run_pg_dump"}

\* verify_checksum ran on a -latest pair that md5sum -c rejects (the pair is
\* not written again before remove_latest_files).
ChecksumMismatch ==
    /\ InLog("verify_checksum")
    /\ ~InLog("remove_latest_files")
    /\ ~md5sum_check(pbf_file, md5_file)

\* C2: when verify_checksum fails on the -latest pair the run is aborted
\* with CalledProcessError, and neither run_osm2pgsql nor any other later
\* stage (readiness poll, schema preparation, post-processing, cleanup,
\* dump) is ever called.
C2_MismatchStopsBeforeImport ==
    ChecksumMismatch
        => /\ pc = "aborted"
           /\ err = "CalledProcessError"
           /\ Count("run_osm2pgsql") = 0
           /\ \A op \in LaterStages : ~InLog(op)

C2_Witness ==
    /\ ChecksumMismatch
    /\ pc = "aborted"
    /\ Last(log) = "verify_checksum"
    /\ exists(pbf_file) /\ exists(md5_file)

\* wait_for_postgres is about to return: two checks have passed.
PollPassed ==
    pc = "wait_loop" /\ found = required_checks

PollTimedOut ==
    pc = "aborted" /\ err \in {SoftTimeout, HardTimeout}

\* C3 (as amended): when pg_isready fails on its first N calls, N < 30, and
\* passes on the next two, wait_for_postgres returns after exactly N+2 calls
\* of the check and after exactly N+2 sleeps (one sleep precedes every
\* check, the first included); such a sequence never ends in the timeout.
C3_PollCallsAndSleeps ==
    /\ PollPassed /\ ~fail_after_pass /\ fails < max_loops
          => checks = fails + 2 /\ sleeps = fails + 2
    /\ PollTimedOut /\ ~fail_after_pass
          => fails >= max_loops

\* C3 as stated: N+2 calls of the check and N+1 sleeps.
C3_AsStated ==
    PollPassed /\ ~fail_after_pass /\ fails < max_loops
        => checks = fails + 2 /\ sleeps = fails + 1

C3_Witness ==
    /\ PollPassed
    /\ ~fail_after_pass
    /\ fails = max_loops - 1
    /\ checks = max_loops + 1

\* C4: with skipping not requested by the caller, check_layerset_places
\* leaves skip_nested false for place = true and makes it true for
\* place = false, for a missing place key and for a missing or unreadable
\* layerset file.
C4_PlaceDecidesSkipNested ==
    InLog("check_layerset_places")
        => /\ ini.place = Some(<<"t","r","u","e">>) => skip_nested = FALSE
           /\ ini.place = Some(<<"f","a","l","s","e">>) => skip_nested = TRUE
           /\ ini.place = None => skip_nested = TRUE

IsPrefix(s, t) ==
    Len(s) <= Len(t) /\ SubSeq(t, 1, Len(s)) = s

DownloadPath ==
    Configured \o <<"pbf_download_needed", "wget_pbf", "wget_md5",
                    "archive_data", "verify_checksum">>

\* The run is dated today and started with none of the four files present.
FreshToday ==
    fresh /\ today = pgosm_date

\* C5: a run dated today that starts with neither dated nor -latest files
\* calls wget once for the payload, then once for the checksum, then
\* archive_data, then verify_checksum, in this order and each at most once;
\* after archive_data both dated files exist, and when verify_checksum
\* starts they are copies of the downloaded -latest pair.
C5_OneDownloadThenArchive ==
    FreshToday
        => /\ IsPrefix(log, DownloadPath) \/ IsPrefix(DownloadPath, log)
           /\ Count("wget_pbf") <= 1 /\ Count("wget_md5") <= 1
           /\ InLog("archive_data")
                 => /\ Count("wget_pbf") = 1 /\ Count("wget_md5") = 1
                    /\ exists(pbf_file_with_date)
                    /\ exists(md5_file_with_date)
           /\ pc = "verify"
                 => /\ pbf_file \in Versions
                    /\ pbf_file_with_date = pbf_file
                    /\ md5_file_with_date = md5_file

C5_Witness ==
    /\ FreshToday
    /\ pc = "recommend"
    /\ log = DownloadPath

\* C6: once a prepare_data dated today has returned, no later run of
\* prepare_data for the same region, subregion and date calls wget: it
\* restores from the dated pair, whether or not the -latest pair is still
\* there, and the dated pair is never written again.
C6_NoSecondDownload ==
    /\ [](cached
            => /\ ~InLog("wget_pbf") /\ ~InLog("wget_md5")
               /\ ~InLog("archive_data")
               /\ pc \notin {"download_pbf", "download_md5", "archive"}
               /\ exists(pbf_file_with_date) /\ exists(md5_file_with_date))
    /\ [][acquired \/ cached
            => /\ pbf_file_with_date' = pbf_file_with_date
               /\ md5_file_with_date' = md5_file_with_date]_vars

C6_Witness ==
    /\ cached
    /\ today = pgosm_date
    /\ fresh = FALSE
    /\ pc = "recommend"
    /\ InLog("unarchive_data")

\* The stage of section 4.6 an operation belongs to.
StageOf(op) ==
    CASE op \in {"get_paths", "setup_logger", "set_env_vars"} -> 1
      [] op \in {"pbf_download_needed", "wget_pbf", "wget_md5", "archive_data",
                 "unarchive_data", "verify_checksum",
                 "osm2pgsql_recommendation"} -> 2
      [] op = "wait_for_postgres" -> 3
      [] op = "prepare_pgosm_db" -> 4
      [] op = "run_osm2pgsql" -> 5
      [] op = "check_layerset_places" -> 6
      [] op \in {"pgosm_after_import", "pgosm_nested_admin_polygons"} -> 7
      [] op \in {"remove_latest_files", "get_export_filename",
                 "rename_schema", "run_pg_dump"} -> 8

\* The operations every run goes through, each only after the one before.
Barrier ==
    <<"set_env_vars", "osm2pgsql_recommendation", "wait_for_postgres",
      "prepare_pgosm_db", "run_osm2pgsql", "pgosm_after_import">>

\* C7: in every run the operations are called stage by stage in the order
\* Configure, Acquire, AwaitDependency, SchemaPrepare, Import,
\* DecideNestedPolygons, PostProcess, Cleanup/Export, none of them twice
\* (only the check inside the poll repeats); a stage is entered only after
\* the stages before it were, and a fatal error ends the run: nothing is
\* called after the operation that failed.
C7_StagesInOrderOnce ==
    /\ [](/\ \A j, k \in 1..Len(log) :
               j < k => StageOf(log[j]) <= StageOf(log[k]) /\ log[j] # log[k]
          /\ \A k \in 2..Len(Barrier) :
               InLog(Barrier[k]) => InLog(Barrier[k-1])
          /\ ~input_file.some /\ InLog("osm2pgsql_recommendation")
               => InLog("verify_checksum")
          /\ pc = "wait_loop" => Last(log) = "wait_for_postgres"
          /\ (err # "none") = (pc = "aborted"))
    /\ [][pc = "aborted" => log' \in {<<>>, Configured}]_vars
    /\ [][pc \notin {"idle", "done", "aborted"}
            => IsPrefix(log, log') /\ Len(log') <= Len(log) + 2]_vars

C7_Witness ==
    /\ pc = "done"
    /\ ~input_file.some
    /\ InLog("check_layerset_places")
    /\ InLog("pgosm_nested_admin_polygons")
    /\ InLog("run_pg_dump")

\* C8: while no check has passed wait_for_postgres does not return; with
\* every check failing it makes max_loops + 1 checks and then ends the run
\* with the soft-bound message, so prepare_pgosm_db and run_osm2pgsql are
\* never called in that run.
C8_AlwaysFailingTimesOut ==
    /\ [](pc = "wait_loop" /\ found = 0
            => checks = fails /\ i = checks /\ i <= max_loops + 1)
    /\ [](err = SoftTimeout
            => /\ pc = "aborted"
               /\ i = max_loops + 1 /\ checks = max_loops + 1
               /\ Last(log) = "wait_for_postgres"
               /\ ~InLog("prepare_pgosm_db") /\ ~InLog("run_osm2pgsql"))
    /\ [][pc = "wait_loop" /\ found = 0
            => /\ pc' \in {"wait_loop", "aborted"}
               /\ i > max_loops => pc' = "aborted" /\ err' = SoftTimeout]_vars

C8_Witness ==
    /\ err = SoftTimeout
    /\ found = 0
    /\ fails = max_loops + 1

\* The name C9 states for a region, an optional subregion, a layerset and a
\* date, every "/" of region and subregion written as "-".
ExportNameAsStated(r, s, layerset, date) ==
    IF s.some
    THEN <<"pgosm-flex", "-">> \o replace_slash(r.val) \o <<"-">>
            \o replace_slash(s.val) \o <<"-">> \o layerset \o <<"-">>
            \o date \o <<".sql">>
    ELSE <<"pgosm-flex", "-">> \o replace_slash(r.val) \o <<"-">>
            \o layerset \o <<"-">> \o date \o <<".sql">>

\* C9: get_export_filename returns, for every region with or without a
\* subregion, the name 'pgosm-flex-{region}-{subregion}-{layerset}-{date}.sql'
\* or, the subregion being None, 'pgosm-flex-{region}-{layerset}-{date}.sql',
\* with every "/" replaced by "-"; it never raises.
C9_ExportFilename ==
    name_call.fn = "get_export_filename"
        => /\ name_call.result.ok
           /\ name_call.result.val =
                 ExportNameAsStated(name_call.region, name_call.subregion,
                                    name_call.layerset, name_call.date)

\* prepare_data has returned to run_pgosm_flex and the -latest pair has not
\* been removed yet.
PrepareDataReturned ==
    /\ ~input_file.some
    /\ pc = "recommend" \/ InLog("osm2pgsql_recommendation")
    /\ ~InLog("remove_latest_files")

\* C10: whenever prepare_data has returned, on the download path or on the
\* cache-hit path, the -latest payload and the -latest checksum exist,
\* md5sum -c accepts them, and verify_checksum was the last operation of
\* prepare_data: it passed after the last write of either file.
C10_ReturnsVerifiedPair ==
    PrepareDataReturned
        => /\ exists(pbf_file) /\ exists(md5_file)
           /\ md5sum_check(pbf_file, md5_file)
           /\ verified
           /\ InLog("verify_checksum")
           /\ \A k \in 1..Len(log) :
                 log[k] \in {"wget_pbf", "wget_md5", "unarchive_data"}
                     => \E n \in (k+1)..Len(log) : log[n] = "verify_checksum"

C10_Witness ==
    /\ PrepareDataReturned
    /\ InLog("unarchive_data")
    /\ pc = "run_osm2pgsql"

\* archive_data of this run wrote at least one of the two dated files.
ArchiveWrote ==
    copied.pbf_dated \/ copied.md5_dated

\* C11: payload and checksum are archived as a pair: from any state of the
\* output directory, a partial cache included, archive_data writes the dated
\* payload exactly when it writes the dated checksum, and after a call that
\* wrote anything the two dated files are the pair that was just downloaded.
C11_ArchivedAsPair ==
    InLog("archive_data")
        => /\ copied.pbf_dated <=> copied.md5_dated
           /\ ArchiveWrote /\ pc = "verify"
                 => /\ pbf_file_with_date = pbf_file
                    /\ md5_file_with_date = md5_file

\* prepare_data has returned in a run without input file: the run is at a
\* stage after the acquisition.
AfterAcquisition ==
    /\ ~input_file.some
    /\ pc \in {"recommend", "wait_for_postgres", "wait_loop",
               "prepare_pgosm_db", "run_osm2pgsql", "decide_nested",
               "run_post_processing", "cleanup", "export"}

\* C12: a run for a downloaded region (no input file) that ends in success
\* has removed the -latest payload and the -latest checksum, and the dated
\* payload and the dated checksum of its pgosm_date exist with the content
\* they had when prepare_data returned: no step after the acquisition
\* writes or removes them.
C12_SuccessLeavesDatedOnly ==
    /\ [](pc = "done" /\ ~input_file.some
            => /\ ~exists(pbf_file) /\ ~exists(md5_file)
               /\ exists(pbf_file_with_date) /\ exists(md5_file_with_date))
    /\ [][AfterAcquisition
            => /\ pbf_file_with_date' = pbf_file_with_date
               /\ md5_file_with_date' = md5_file_with_date]_vars

C12_Witness ==
    /\ pc = "done"
    /\ ~input_file.some
    /\ InLog("wget_md5")
    /\ copied.pbf_dated /\ copied.md5_dated
    /\ InLog("run_pg_dump")

\* The operations of the acquisition and the removal of the -latest pair.
AcquisitionOps ==
    {"pbf_download_needed", "wget_pbf", "wget_md5", "archive_data",
     "unarchive_data", "verify_checksum", "remove_latest_files"}

\* C13: a run given a local input file skips the acquisition: it calls no
\* download, no archive or restore copy and no checksum verification, its
\* cleanup removes no -latest file, and no step of the run changes any of
\* the four files, the dated cache included.
C13_InputFileSkipsAcquisition ==
    /\ [](input_file.some
            => \A k \in 1..Len(log) : log[k] \notin AcquisitionOps)
    /\ [][input_file'.some => fs' = fs]_vars

C13_Witness ==
    /\ input_file.some
    /\ pc = "done"
    /\ exists(pbf_file) /\ exists(md5_file)
    /\ exists(pbf_file_with_date)
    /\ export_filename = Ok(splitext_sql(InputPbf))

\* run_pgosm_flex was called with neither a region nor an input file.
NothingToLoad ==
    pc # "idle" /\ ~region.some /\ ~input_file.some

\* C14: called with neither a region nor an input file, run_pgosm_flex
\* raises ValueError before anything else: the run has called no operation
\* at all (no get_paths, no set_env_vars, no download, poll, schema
\* preparation, import, post-processing or dump), the step changes none of
\* the four files, and ValueError is raised in no other case.
C14_NoInputAbortsAtOnce ==
    /\ [](NothingToLoad
            => pc = "aborted" /\ err = "ValueError" /\ log = <<>>)
    /\ [](err = "ValueError" => NothingToLoad)
    /\ [][~region'.some /\ ~input_file'.some => fs' = fs]_vars

C14_Witness ==
    /\ NothingToLoad
    /\ err = "ValueError"
    /\ cached

\* C15: archival is write-once: across all runs, no step overwrites,
\* modifies or removes a dated payload or a dated checksum that exists; the
\* dated files change only in archive_data, which writes a dated file only
\* when that file did not exist before the call.
C15_ArchiveWriteOnce ==
    [][/\ exists(pbf_file_with_date)
            => pbf_file_with_date' = pbf_file_with_date
       /\ exists(md5_file_with_date)
            => md5_file_with_date' = md5_file_with_date
       /\ (pbf_file_with_date' # pbf_file_with_date
             \/ md5_file_with_date' # md5_file_with_date)
            => pc = "archive" /\ Last(log') = "archive_data"]_vars

\* archive_data was called with a dated payload in place that differs from
\* the downloaded one, and it is still there.
C15_Witness ==
    /\ pc = "verify"
    /\ InLog("archive_data")
    /\ ~copied.pbf_dated /\ copied.md5_dated
    /\ exists(pbf_file_with_date)
    /\ pbf_file_with_date # pbf_file

\* C16: inside one call of wait_for_postgres the count of passed checks
\* never decreases and a failed check does not reset it: it is the number
\* of checks that passed so far, and the call returns as soon as it reaches
\* 2 (and only then), also when failed checks lie between the two passes.
C16_PassCountNeverReset ==
    /\ [](pc = "wait_loop"
            => found = checks - fails /\ found <= required_checks)
    /\ [][pc = "wait_loop" /\ pc' # "prepare_pgosm_db" => found' >= found]_vars
    /\ [][pc = "wait_loop"
            => (found = required_checks <=> pc' = "prepare_pgosm_db")]_vars

C16_Witness ==
    /\ PollPassed
    /\ fail_after_pass
    /\ fails >= 2

\* C17: the second guard of wait_for_postgres (i > 100) never fires: the
\* loop counter advances by one with every pass through the loop body, it
\* never exceeds 31, pg_isready is called at most 31 times, and a call that
\* does not return ends in the first guard's exit.
C17_HardBoundUnreachable ==
    /\ [](/\ err # HardTimeout
          /\ i <= max_loops + 1
          /\ checks <= max_loops + 1
          /\ pc = "wait_loop" => i = checks)
    /\ [][pc = "wait_loop"
            => \/ pc' = "wait_loop" /\ i' = i + 1
               \/ pc' = "prepare_pgosm_db" /\ found = required_checks
               \/ pc' = "aborted" /\ err' = SoftTimeout /\ i = max_loops + 1]_vars

C17_Witness ==
    /\ pc = "aborted"
    /\ err = SoftTimeout
    /\ found = 1
    /\ i = max_loops + 1
    /\ checks = max_loops + 1

\* C18: when both dated files exist prepare_data takes the restore branch
\* whatever the date, and unarchive_data copies them over the -latest names
\* unconditionally: after it the -latest pair equals the dated pair,
\* whether or not -latest files were in the way and whatever they held, and
\* the run has called no wget.
C18_RestoreOverwrites ==
    /\ [](pc = "verify" /\ Last(log) = "unarchive_data"
            => /\ exists(pbf_file_with_date) /\ exists(md5_file_with_date)
               /\ pbf_file = pbf_file_with_date
               /\ md5_file = md5_file_with_date
               /\ ~InLog("wget_pbf") /\ ~InLog("wget_md5"))
    /\ [][/\ pc = "prepare_data" /\ ~DatedPairIncomplete
                => pc' = "unarchive"
         /\ pc = "unarchive"
                => pc' = "verify" /\ Last(log') = "unarchive_data"]_vars

C18_Witness ==
    /\ pc = "verify"
    /\ Last(log) = "unarchive_data"
    /\ copied.over_stale
    /\ pbf_file = pbf_file_with_date

\* db.pgosm_after_import raised: the run ended inside the base scripts.
BaseScriptsFailed ==
    pc = "aborted" /\ log # <<>> /\ Last(log) = "pgosm_after_import"

\* C19: a run that reaches run_post_processing runs the base post-import
\* scripts exactly once; unless they fail, the nested admin polygons are
\* computed exactly when the caller did not ask to skip them and
\* check_layerset_places did not answer "skip"; when the caller asked to
\* skip, check_layerset_places is not called and skip_nested stays true.
C19_PostProcessing ==
    /\ [](InLog("pgosm_after_import")
            => /\ Count("pgosm_after_import") = 1
               /\ Count("pgosm_nested_admin_polygons") <= 1
               /\ InLog("pgosm_nested_admin_polygons")
                     => ~skip_nested_in /\ ~skip_nested
               /\ ~skip_nested_in /\ ~skip_nested /\ ~BaseScriptsFailed
                     => InLog("pgosm_nested_admin_polygons")
               /\ skip_nested_in
                     => skip_nested /\ ~InLog("check_layerset_places")
               /\ ~skip_nested_in
                     => /\ Count("check_layerset_places") = 1
                        /\ skip_nested = check_layerset_places(ini))
    /\ [][pc = "decide_nested" /\ skip_nested_in
            => skip_nested' /\ log' = log /\ ini' = ini]_vars
    /\ [][pc = "run_post_processing"
            => /\ log'[Len(log) + 1] = "pgosm_after_import"
               /\ UNCHANGED <<skip_nested, skip_nested_in>>]_vars

\* The caller did not ask to skip, the layerset file made the decision, and
\* the nested polygons were skipped on its account.
C19_Witness ==
    /\ pc = "done"
    /\ ~skip_nested_in
    /\ skip_nested
    /\ InLog("check_layerset_places")
    /\ InLog("pgosm_after_import")
    /\ ~InLog("pgosm_nested_admin_polygons")

\* archive_data of this run created the complete dated pair.
ArchivedPair ==
    copied.pbf_dated /\ copied.md5_dated

\* verify_checksum of this run rejected the pair.
VerificationFailed ==
    pc = "aborted" /\ log # <<>> /\ Last(log) = "verify_checksum"

\* C20 (as stated): a complete dated pair created by archive_data has
\* passed the checksum verification once verify_checksum has run; a
\* downloaded pair that fails is not kept in the dated cache.
C20_AsStated ==
    ArchivedPair /\ InLog("verify_checksum")
        => md5sum_check(pbf_file_with_date, md5_file_with_date)

\* C20 (as amended): archive_data runs before verify_checksum, so a
\* downloaded pair is in the dated cache before it is verified and stays
\* there when the verification fails: verify_checksum changes no file. A
\* run that takes the restore branch on such a pair verifies the restored
\* copy and gets past prepare_data only if md5sum accepts the dated pair,
\* so a pair that fails is never imported.
C20_ArchivedBeforeVerified ==
    /\ [](ArchivedPair /\ InLog("verify_checksum")
            => /\ exists(pbf_file_with_date) /\ exists(md5_file_with_date)
               /\ VerificationFailed
                     => ~md5sum_check(pbf_file_with_date, md5_file_with_date))
    /\ [](InLog("unarchive_data")
            => /\ InLog("osm2pgsql_recommendation")
                     => md5sum_check(pbf_file_with_date, md5_file_with_date)
               /\ ~md5sum_check(pbf_file_with_date, md5_file_with_date)
                     => ~InLog("run_osm2pgsql"))
    /\ [][pc = "verify" => fs' = fs]_vars
    /\ [][pc = "archive" => Last(log') = "archive_data" /\ pc' = "verify"]_vars

C20_Witness ==
    /\ VerificationFailed
    /\ ArchivedPair
    /\ exists(pbf_file_with_date) /\ exists(md5_file_with_date)
    /\ ~md5sum_check(pbf_file_with_date, md5_file_with_date)

\* The (region, subregion) inputs of another run of the same date.
ExtractIds ==
    {<<r, sr>> : r \in {Some(n) : n \in Names},
                 sr \in {None} \cup {Some(n) : n \in Names}}

\* The part of (region, subregion) that get_region_filename puts in the name.
NameKey(r, sr) ==
    IF sr.some THEN sr.val ELSE format(r)

\* prepare_data derived the dated name of this state's (region, subregion).
DatedNameDerived ==
    name_call.fn = "prepare_data" /\ name_call.result.ok

\* C21 (as stated): the dated file name is keyed by the full extract
\* identity: every other (region, subregion) pair gets, for the same date,
\* a dated name different from this one, so a run never finds the files
\* archived for another pair.
C21_AsStated ==
    DatedNameDerived
        => \A id \in ExtractIds :
              id # <<name_call.region, name_call.subregion>>
                  => dated_filename(id[1], id[2], name_call.date)
                        # name_call.result.val

\* C21 (as amended): the dated file name is keyed by the subregion when one
\* is given and by the region otherwise: for one date, two (region,
\* subregion) pairs get the same dated name exactly when they agree on
\* that key, so pairs with the same subregion and different regions share
\* one cache entry.
C21_KeyedBySubregion ==
    DatedNameDerived
        => /\ name_call.result.val
                = NameKey(name_call.region, name_call.subregion)
                     \o <<"-">> \o name_call.date \o <<".osm.pbf">>
           /\ \A id \in ExtractIds :
                 dated_filename(id[1], id[2], name_call.date)
                       = name_call.result.val
                    <=> NameKey(id[1], id[2])
                          = NameKey(name_call.region, name_call.subregion)

\* Another region with the same subregion has the same dated name.
C21_Witness ==
    /\ DatedNameDerived
    /\ name_call.subregion.some
    /\ \E id \in ExtractIds :
          /\ id[1] # name_call.region
          /\ id[2] = name_call.subregion
          /\ dated_filename(id[1], id[2], name_call.date)
                = name_call.result.val

\* C22: the import command is computed with the connection string of the
\* run, on the downloaded-region path and on the local-file path alike:
\* what osm2pgsql_recommendation was asked for names the database that the
\* readiness poll, the schema preparation and the post-processing use.
C22_CommandUsesConnStr ==
    osm2pgsql_command.asked
        => osm2pgsql_command.conn = conn_str

====
